---- MODULE Spec2Model ----
(***************************************************************************)
(* Model of the multipart downloader (package multipartdownloader):        *)
(* GatherInfo with its concurrent HEAD probes, buildChunks, and Download   *)
(* with its worker goroutines, coordinator loop and progress aggregator.   *)
(***************************************************************************)
EXTENDS Integers, Sequences, FiniteSets, TLC

\* ---------------------------------------------------------------- bounds
MaxConns == 5        \* largest nConns tried for buildChunks
MaxChunkLen == 20    \* largest fileLength tried for buildChunks
MaxProbes == 3       \* largest number of mirrors probed by GatherInfo
MaxGatherConns == 2  \* largest nConns in the GatherInfo specification
GatherLen == 5       \* the Content-Length a mirror may declare
MaxWorkers == 2      \* largest nConns in the Download specification
MaxMirrors == 2      \* largest number of mirrors in the Download specification
MaxPairs == 4        \* largest nConns times mirrors in the Download specification
MaxBlocks == 2       \* file lengths reach MaxBlocks write blocks ...
MaxTail == 2         \* ... plus MaxTail bytes
ErrBodyLen == 3      \* bytes in the body of an error response

\* ------------------------------------------------------- program constants
fileWriteChunk == 4096
tmpFileSuffix == ".part"

VARIABLES
    urls,          \* dldr.urls, a function 0..m-1 -> URL
    nConns,        \* dldr.nConns
    fileLength,    \* dldr.fileLength
    filename,      \* dldr.filename
    partFilename,  \* dldr.partFilename
    ETag,          \* dldr.ETag
    chunks,        \* dldr.chunks, a function 0..n-1 -> [Begin, End]
    gipc,          \* position of GatherInfo
    giErr,         \* error returned by GatherInfo ("" is nil)
    heads,         \* what each mirror answers to the HEAD probe
    ppc,           \* position of each getHead goroutine
    resArray,      \* results received so far, in arrival order
    resultsClosed, \* the results channel was closed
    feedbackFunc,  \* Download was given a progress callback
    mode,          \* what the mirrors do to ranged GETs in this session
    dlpc,          \* position of Download (the coordinator)
    dlErr,         \* error returned by Download (<<>> is nil)
    spawned,       \* loop index of the spawn loop
    available,     \* tokens in the buffered channel available
    remainingChunks,
    failedCount,
    wpc,           \* position of each downloadChunk goroutine
    try,           \* each worker's try index
    cursor,        \* each worker's cursor
    resp,          \* each worker's open response: status and unread bytes
    progressArray, \* the aggregator's table
    complete,      \* the aggregator's counter
    aggpc,         \* position of the aggregator goroutine
    fileWrites,    \* every WriteAt made so far: worker, range, response status
    files,         \* names present in the directory
    renames,       \* number of successful renames
    doneCount,     \* done signals the coordinator received, per chunk
    failedSignals, \* failed signals the coordinator received
    tried,         \* mirrors each worker attempted since it took its token
    admissions,    \* tokens each worker has taken so far
    writeErr,      \* workers whose WriteAt returned an error
    sfpc,          \* position of SetupFile
    sfArg,         \* the filename argument of SetupFile
    sfEnv,         \* which of Create, Truncate and Stat succeed
    sfErr,         \* error returned by SetupFile (<<>> is nil)
    sfInfo,        \* size in the FileInfo returned by SetupFile (<<>> is nil)
    stagingSize    \* length of the staging file

dldrVars   == <<urls, nConns, fileLength, filename, partFilename, ETag, chunks>>
gatherVars == <<gipc, giErr, heads, ppc, resArray, resultsClosed>>
coordVars  == <<dlpc, dlErr, spawned, remainingChunks, failedCount,
                files, renames, doneCount, failedSignals>>
workerVars == <<wpc, try, cursor, resp, fileWrites, tried, admissions, writeErr>>
setupVars  == <<sfpc, sfArg, sfEnv, sfErr, sfInfo, stagingSize>>
aggVars    == <<progressArray, complete, aggpc>>
dlVars     == <<feedbackFunc, mode, available, coordVars, workerVars, aggVars>>
vars == <<dldrVars, gatherVars, dlVars, setupVars>>

NoChunks == [k \in {} |-> 0]

\* ------------------------------------------------------------ buildChunks
\* The loop of buildChunks: iteration i with the loop's local variables.
RECURSIVE buildLoop(_, _, _, _, _, _, _)
buildLoop(i, n, remainder, chunkSize, boundary, nextBoundary, acc) ==
    IF ~(i < n) THEN acc
    ELSE LET rem2 == IF remainder > 0 THEN remainder - 1 ELSE remainder
             nb   == IF remainder > 0 THEN nextBoundary + 1 ELSE nextBoundary
         IN  buildLoop(i + 1, n, rem2, chunkSize, nb, nb + chunkSize,
                       acc @@ (i :> [Begin |-> boundary, End |-> nb]))

\* A planner that dumps the whole remainder into the last chunk.
buildChunksLast(length, conns) ==
    LET chunkSize == length \div conns
    IN  [k \in 0 .. conns - 1 |->
            [Begin |-> k * chunkSize,
             End   |-> IF k = conns - 1 THEN length ELSE (k + 1) * chunkSize]]

buildChunks(length, conns) ==
    LET n              == conns
        remainder      == length % n
        exactNumerator == length - remainder
        chunkSize      == exactNumerator \div n
    IN  buildLoop(0, n, remainder, chunkSize, 0, chunkSize, NoChunks)

\* ------------------------------------------------------------- mirrors
Q == "\""

\* Strings that are taken apart or put together are sequences of pieces:
\* <<>> is the empty string and \o is concatenation.
\* The URL of mirror k: every mirror serves the file under its own name.
UrlOf(k) == [parses |-> TRUE, host |-> k,
             path |-> << <<"pub">>, <<"file", ToString(k)>> >>]

\* urlToFilename: the text after the last slash of the URL's path, or the
\* fallback name when the URL does not parse.
urlToFilename(u) ==
    IF ~u.parses THEN <<"downloaded-file">>
    ELSE IF Len(u.path) = 0 THEN <<>>
    ELSE u.path[Len(u.path)]

\* filename + tmpFileSuffix
PartName(name) == name \o <<tmpFileSuffix>>

\* ETag header values: absent, two quoted tags and a one-character tag.
Etags == {<<>>, <<Q, "a", Q>>, <<Q, "b", Q>>, <<"W">>}

\* Content-Length header values: <<>> is a header strconv.ParseInt rejects.
ContentLengths == {<<>>, <<GatherLen>>}

HeadOutcomes ==
    {[conn |-> FALSE, statusCode |-> 0, contentLength |-> <<>>, etag |-> <<>>],
     [conn |-> TRUE, statusCode |-> 404, contentLength |-> <<>>, etag |-> <<>>]}
    \cup [conn : {TRUE}, statusCode : {200},
          contentLength : ContentLengths, etag : Etags]

\* ------------------------------------------------------------- GatherInfo
\* getHead: the urlInfo a probe sends for the answer h of mirror k.
getHeadInfo(k, h) ==
    IF ~h.conn
    THEN [url |-> urls[k], fileLength |-> 0, etag |-> <<>>,
          connSuccess |-> FALSE, statusCode |-> 0]
    ELSE [url |-> urls[k],
          fileLength |-> IF h.contentLength = <<>> THEN 0 ELSE h.contentLength[1],
          etag |-> h.etag, connSuccess |-> TRUE, statusCode |-> h.statusCode]

\* A check that only looks at the connection, not at the status.
BadResultConnOnly(r) == ~r.connSuccess

\* Line 112: the result of a probe that did not connect or was not a 200.
BadResult(r) == ~r.connSuccess \/ r.statusCode # 200

\* Lines 120-127: compare every later result with the first one received.
Mismatch(res) ==
    LET commonFileLength == res[1].fileLength
        commonEtag       == res[1].etag
    IN  \E j \in 2 .. Len(res) :
            \/ res[j].fileLength # commonFileLength
            \/ (Len(res[j].etag) # 0 /\ res[j].etag # commonEtag)

\* Lines 71-108: reject an empty list, else start one probe per mirror.
GatherInfoStart ==
    /\ gipc = "start"
    /\ IF DOMAIN urls = {}
       THEN /\ gipc' = "returned"
            /\ giErr' = "No URLs provided"
            /\ UNCHANGED <<ppc, resultsClosed>>
       ELSE /\ gipc' = "collect"
            /\ ppc' = [k \in DOMAIN urls |-> "head"]
            /\ UNCHANGED <<giErr, resultsClosed>>
    /\ UNCHANGED <<dldrVars, heads, resArray, dlVars, setupVars>>

\* Lines 80-101: the probe of mirror k gets its answer and goes to send it.
GetHead(k) ==
    /\ gipc # "start"
    /\ ppc[k] = "head"
    /\ ppc' = [ppc EXCEPT ![k] = "send"]
    /\ UNCHANGED <<dldrVars, gipc, giErr, heads, resArray, resultsClosed, dlVars, setupVars>>

\* Lines 128-143: commit the agreed identity, build the chunk table, return.
Commit(res) ==
    LET commonEtag == res[1].etag
    IN  /\ fileLength' = res[1].fileLength
        /\ IF commonEtag # <<>> /\ Len(commonEtag) < 2
           THEN \* commonEtag[1:0] panics: slice bounds out of range
                /\ gipc' = "panicked"
                /\ giErr' = "panic"
                /\ UNCHANGED <<ETag, filename, partFilename, chunks>>
           ELSE /\ ETag' = IF commonEtag # <<>>
                           THEN SubSeq(commonEtag, 2, Len(commonEtag) - 1)
                           ELSE ETag
                /\ filename' = urlToFilename(res[1].url)
                /\ partFilename' = PartName(urlToFilename(res[1].url))
                /\ chunks' = buildChunks(res[1].fileLength, nConns)
                /\ gipc' = "returned"
                /\ giErr' = ""

\* Lines 109-143: receive the result of probe k (channel rendezvous), then run
\* on to the next receive or to the end of GatherInfo. The deferred close of
\* the results channel runs whenever GatherInfo is left.
RecvResult(k) ==
    /\ gipc = "collect"
    /\ ppc[k] = "send"
    /\ ppc' = [ppc EXCEPT ![k] = "done"]
    /\ LET r   == getHeadInfo(k, heads[k])
           res == Append(resArray, r)
       IN  /\ resArray' = res
           /\ IF BadResult(r)
              THEN /\ gipc' = "returned"
                   /\ giErr' = "Failed connection to URL"
                   /\ resultsClosed' = TRUE
                   /\ UNCHANGED <<fileLength, filename, partFilename, ETag, chunks>>
              ELSE IF Len(res) < Cardinality(DOMAIN urls)
              THEN UNCHANGED <<gipc, giErr, resultsClosed,
                               fileLength, filename, partFilename, ETag, chunks>>
              ELSE IF Mismatch(res)
              THEN /\ gipc' = "returned"
                   /\ giErr' = "URLs must point to the same file"
                   /\ resultsClosed' = TRUE
                   /\ UNCHANGED <<fileLength, filename, partFilename, ETag, chunks>>
              ELSE /\ Commit(res)
                   /\ resultsClosed' = TRUE
    /\ UNCHANGED <<urls, nConns, heads, dlVars, setupVars>>

\* Lines 85/95 after line 76 ran: a send on the closed channel panics.
SendOnClosed(k) ==
    /\ resultsClosed
    /\ ppc[k] = "send"
    /\ ppc' = [ppc EXCEPT ![k] = "panic"]
    /\ UNCHANGED <<dldrVars, gipc, giErr, heads, resArray, resultsClosed, dlVars, setupVars>>

\* Download has not been called.
DownloadIdle ==
    /\ feedbackFunc = FALSE
    /\ mode = "none"
    /\ dlpc = "idle"
    /\ dlErr = <<>>
    /\ spawned = 0
    /\ available = 0
    /\ remainingChunks = 0
    /\ failedCount = 0
    /\ wpc = [k \in {} |-> "idle"]
    /\ try = [k \in {} |-> 0]
    /\ cursor = [k \in {} |-> 0]
    /\ resp = [k \in {} |-> 0]
    /\ progressArray = [k \in {} |-> 0]
    /\ complete = 0
    /\ aggpc = "none"
    /\ fileWrites = {}
    /\ files = {}
    /\ renames = 0
    /\ doneCount = [k \in {} |-> 0]
    /\ failedSignals = 0
    /\ tried = [k \in {} |-> <<>>]
    /\ admissions = [k \in {} |-> 0]
    /\ writeErr = {}

\* SetupFile has not been called.
SetupIdle ==
    /\ sfpc = "idle"
    /\ sfArg = <<>>
    /\ sfEnv = [create |-> TRUE, truncate |-> TRUE, stat |-> TRUE]
    /\ sfErr = <<>>
    /\ sfInfo = <<>>
    /\ stagingSize = 0

\* SetupFile("") has returned the FileInfo of the sized staging file.
SetupDone ==
    /\ sfpc = "returned"
    /\ sfArg = <<>>
    /\ sfEnv = [create |-> TRUE, truncate |-> TRUE, stat |-> TRUE]
    /\ sfErr = <<>>
    /\ sfInfo = <<fileLength>>
    /\ stagingSize = fileLength

InitDldr ==
    /\ fileLength = 0
    /\ filename = <<>>
    /\ partFilename = <<>>
    /\ ETag = <<>>
    /\ chunks = NoChunks

InitGather ==
    /\ \E m \in 0 .. MaxProbes :
          /\ urls = [k \in 0 .. m - 1 |-> UrlOf(k)]
          /\ heads \in [0 .. m - 1 -> HeadOutcomes]
    /\ nConns \in 1 .. MaxGatherConns
    /\ InitDldr
    /\ gipc = "start"
    /\ giErr = ""
    /\ ppc = [k \in {} |-> "head"]
    /\ resArray = <<>>
    /\ resultsClosed = FALSE
    /\ DownloadIdle
    /\ SetupIdle

NextGather ==
    \/ GatherInfoStart
    \/ \E k \in DOMAIN urls : GetHead(k)
    \/ \E k \in DOMAIN urls : RecvResult(k)
    \/ \E k \in DOMAIN urls : SendOnClosed(k)

SpecGather == InitGather /\ [][NextGather]_vars

\* ----------------------------------------------- specification: planner
InitChunks ==
    /\ nConns \in 1 .. MaxConns
    /\ urls = [k \in 0 .. 0 |-> UrlOf(k)]
    /\ fileLength \in 0 .. MaxChunkLen
    /\ filename = urlToFilename(UrlOf(0))
    /\ partFilename = PartName(filename)
    /\ ETag = <<>>
    /\ chunks = NoChunks
    /\ gipc = "buildChunks"
    /\ giErr = ""
    /\ heads = [k \in 0 .. 0 |->
                  [conn |-> TRUE, statusCode |-> 200,
                   contentLength |-> <<fileLength>>, etag |-> <<>>]]
    /\ ppc = [k \in 0 .. 0 |-> "done"]
    /\ resArray = <<getHeadInfo(0, heads[0])>>
    /\ resultsClosed = FALSE
    /\ DownloadIdle
    /\ SetupIdle

\* GatherInfo line 141-143: build the table and return it.
CallBuildChunks ==
    /\ gipc = "buildChunks"
    /\ chunks' = buildChunks(fileLength, nConns)
    /\ gipc' = "returned"
    /\ resultsClosed' = TRUE
    /\ UNCHANGED <<urls, nConns, fileLength, filename, partFilename, ETag,
                   giErr, heads, ppc, resArray, dlVars, setupVars>>

NextChunks == CallBuildChunks

SpecChunks == InitChunks /\ [][NextChunks]_vars

ChunkSize(k) == chunks[k].End - chunks[k].Begin

\* C1: for every length L >= 0 and N >= 1 buildChunks yields exactly N chunks,
\* chunk 0 begins at 0, chunk k+1 begins where chunk k ends, the last chunk
\* ends at L, every size is floor(L/N) or floor(L/N)+1 and exactly the first
\* (L mod N) chunks have the larger size.
ChunksPartition ==
    (gipc = "returned" /\ giErr = "") =>
        /\ DOMAIN chunks = 0 .. nConns - 1
        /\ chunks[0].Begin = 0
        /\ \A k \in 0 .. nConns - 2 : chunks[k + 1].Begin = chunks[k].End
        /\ chunks[nConns - 1].End = fileLength
        /\ \A k \in 0 .. nConns - 1 :
              /\ ChunkSize(k) \in {fileLength \div nConns, (fileLength \div nConns) + 1}
              /\ (ChunkSize(k) = (fileLength \div nConns) + 1) <=> (k < fileLength % nConns)

ChunksPartitionWitness ==
    /\ gipc = "returned"
    /\ nConns = 3
    /\ fileLength = 11
    /\ ChunkSize(0) = 4 /\ ChunkSize(1) = 4 /\ ChunkSize(2) = 3

\* --------------------------------------------------------------- Download
Workers == 0 .. nConns - 1
NumUrls == Cardinality(DOMAIN urls)
Min(a, b) == IF a < b THEN a ELSE b

\* Line 219 without the worker's offset: every worker starts at mirror 0.
selectedUrlHerd(i, t) == t % NumUrls

\* Line 219: the mirror worker i selects on try t.
selectedUrl(i, t) == (i + t) % NumUrls

\* Line 226: the Range header "bytes=Begin-End" of chunk i, as the pair of
\* byte positions it names (both inclusive, as HTTP reads them).
RangeHeader(i) == [first |-> chunks[i].Begin, last |-> chunks[i].End]

\* What a healthy mirror answers to a Range header for a file of fileLength
\* bytes: 206 with the bytes first..min(last, fileLength-1), or 416 with an
\* error body when first is past the end of the file.
Served(h) ==
    IF h.first < fileLength
    THEN [statusCode |-> 206, err |-> FALSE,
          left |-> Min(h.last, fileLength - 1) - h.first + 1]
    ELSE [statusCode |-> 416, err |-> FALSE, left |-> ErrBodyLen]

\* The responses client.Do may return to worker i, by what the mirrors do:
\* nothing ("down"), what a healthy mirror serves ("mix"), or also a 404
\* with an error body and a 206 whose body ends one byte early ("any"),
\* either at a clean end of stream or with a read error (err) because the
\* connection broke before the declared length.
Responses(i) ==
    IF mode = "down" THEN {}
    ELSE IF mode = "mix" THEN {Served(RangeHeader(i))}
    ELSE {Served(RangeHeader(i)),
          [statusCode |-> 404, err |-> FALSE, left |-> ErrBodyLen]}
         \cup {[statusCode |-> 206, err |-> e,
                 left |-> Served(RangeHeader(i)).left - 1] :
                  e \in IF Served(RangeHeader(i)).statusCode = 206
                        THEN BOOLEAN ELSE {}}

NoResp == [statusCode |-> 0, err |-> FALSE, left |-> 0]

\* A write error that is only logged, so that line 247 is reached.
WriteErrorLogged == FALSE

\* Line 246: log.Fatal ends the process, so line 247 is never reached.
WriteErrorExits == TRUE

\* The process has ended in log.Fatal.
Exited == WriteErrorExits /\ writeErr # {}

\* Line 205 with one slot less in the buffer.
PoolCapSmall == nConns - 1

\* Line 205: the capacity of the buffered channel available.
PoolCap == nConns

\* Line 310 left out: no token is put back for a done.
PutBackNone(pool) == pool

\* Line 310: the pool after the coordinator put one token back for a done.
PutBack(pool) == pool + 1

\* Line 305 with an off-by-one loop condition.
LoopCondEarly(remaining) == remaining > 1

\* Line 305: the coordinator loop runs while chunks remain.
LoopCond(remaining) == remaining > 0

\* Line 313 with the ceiling one failure too low.
CeilingEarly(count) == count >= nConns - 1

\* Line 313 with a strict comparison.
CeilingStrict(count) == count > nConns

\* Line 313: the failure ceiling.
Ceiling(count) == count >= nConns

\* Line 267: open the staging file; on error Download returns it.
OpenFile ==
    /\ ~Exited
    /\ dlpc = "open"
    /\ \/ /\ partFilename \in files
          /\ dlpc' = "spawn"
          /\ UNCHANGED dlErr
       \/ /\ dlpc' = "returned"
          /\ dlErr' = <<"open">>
    /\ UNCHANGED <<dldrVars, gatherVars, setupVars, feedbackFunc, mode, available, spawned,
                   remainingChunks, failedCount, files, renames, doneCount,
                   failedSignals, workerVars, aggVars>>

\* Lines 272-277: one iteration of the spawn loop: start worker i and put
\* one token into available.
Spawn ==
    /\ ~Exited
    /\ dlpc = "spawn"
    /\ spawned < nConns
    /\ available < PoolCap
    /\ wpc' = [wpc EXCEPT ![spawned] = "acquire"]
    /\ available' = available + 1
    /\ spawned' = spawned + 1
    /\ UNCHANGED <<dldrVars, gatherVars, setupVars, feedbackFunc, mode, dlpc, dlErr,
                   remainingChunks, failedCount, files, renames, doneCount,
                   failedSignals, try, cursor, resp, fileWrites,
                   tried, admissions, writeErr, aggVars>>

\* Lines 279-304: fill the progress table and start the aggregator when a
\* callback was given, then set the counters of the coordinator loop.
StartCoordinator ==
    /\ ~Exited
    /\ dlpc = "spawn"
    /\ ~(spawned < nConns)
    /\ IF feedbackFunc
       THEN /\ progressArray' = [i \in Workers |->
                                   [Id |-> i, Begin |-> chunks[i].Begin,
                                    End |-> chunks[i].End,
                                    Current |-> chunks[i].Begin]]
            /\ complete' = 0
            /\ aggpc' = IF 0 < nConns THEN "recv" ELSE "exit"
       ELSE UNCHANGED aggVars
    /\ remainingChunks' = nConns
    /\ failedCount' = 0
    /\ dlpc' = "select"
    /\ UNCHANGED <<dldrVars, gatherVars, setupVars, feedbackFunc, mode, available, dlErr,
                   spawned, files, renames, doneCount, failedSignals, workerVars>>

\* Line 214: worker i takes a token and starts the loop over the mirrors.
Acquire(i) ==
    /\ ~Exited
    /\ wpc[i] = "acquire"
    /\ available > 0
    /\ available' = available - 1
    /\ try' = [try EXCEPT ![i] = 0]
    /\ tried' = [tried EXCEPT ![i] = <<>>]
    /\ admissions' = [admissions EXCEPT ![i] = @ + 1]
    /\ wpc' = [wpc EXCEPT ![i] = IF 0 < NumUrls THEN "try" ELSE "failed"]
    /\ UNCHANGED <<dldrVars, gatherVars, setupVars, feedbackFunc, mode, coordVars,
                   cursor, resp, fileWrites, writeErr, aggVars>>

\* Lines 216-230: the request to the selected mirror fails (NewRequest or
\* client.Do returns an error): next try, or line 263 after the last mirror.
ConnectFails(i) ==
    /\ ~Exited
    /\ wpc[i] = "try"
    /\ mode \in {"down", "mix", "any"}
    /\ tried' = [tried EXCEPT ![i] = Append(@, selectedUrl(i, try[i]))]
    /\ try' = [try EXCEPT ![i] = @ + 1]
    /\ wpc' = [wpc EXCEPT ![i] = IF try[i] + 1 < NumUrls THEN "try" ELSE "failed"]
    /\ UNCHANGED <<dldrVars, gatherVars, setupVars, feedbackFunc, mode, available, coordVars,
                   cursor, resp, fileWrites, admissions, writeErr, aggVars>>

\* Lines 226-235: client.Do returns a response; the status is not looked at
\* and the cursor starts at the chunk's Begin.
Connect(i) ==
    /\ ~Exited
    /\ wpc[i] = "try"
    /\ \E r \in Responses(i) :
          /\ resp' = [resp EXCEPT ![i] = r]
          /\ cursor' = [cursor EXCEPT ![i] = chunks[i].Begin]
          /\ wpc' = [wpc EXCEPT ![i] = "read"]
    /\ tried' = [tried EXCEPT ![i] = Append(@, selectedUrl(i, try[i]))]
    /\ UNCHANGED <<dldrVars, gatherVars, setupVars, feedbackFunc, mode, available, coordVars,
                   try, fileWrites, admissions, writeErr, aggVars>>

\* Lines 237-259: one io.ReadFull and a WriteAt that succeeds. At io.EOF go
\* to signal done; else write the n bytes read (none after a read error) at
\* the cursor, advance it, and go to send progress when a callback was given.
ReadBlock(i) ==
    /\ ~Exited
    /\ wpc[i] = "read"
    /\ IF resp[i].left = 0 /\ ~resp[i].err
       THEN /\ wpc' = [wpc EXCEPT ![i] = "done"]
            /\ UNCHANGED <<cursor, resp, fileWrites>>
       ELSE LET n == Min(resp[i].left, fileWriteChunk)
            IN  /\ fileWrites' = fileWrites \cup
                       {[w |-> i, lo |-> cursor[i], hi |-> cursor[i] + n,
                         statusCode |-> resp[i].statusCode] : x \in 1 .. Min(n, 1)}
                /\ cursor' = [cursor EXCEPT ![i] = @ + n]
                /\ resp' = [resp EXCEPT ![i].left = @ - n]
                /\ wpc' = [wpc EXCEPT ![i] = IF feedbackFunc THEN "progress" ELSE "read"]
    /\ UNCHANGED <<dldrVars, gatherVars, setupVars, feedbackFunc, mode, available, coordVars,
                   try, tried, admissions, writeErr, aggVars>>

\* Lines 244-248: WriteAt returns an error (the disk fails in mode "any").
\* log.Fatal ends the process; were it to return, break would leave the
\* read loop for the next try.
WriteFails(i) ==
    /\ ~Exited
    /\ wpc[i] = "read"
    /\ mode = "any"
    /\ resp[i].left > 0
    /\ writeErr' = writeErr \cup {i}
    /\ IF WriteErrorExits
       THEN /\ wpc' = [wpc EXCEPT ![i] = "fatal"]
            /\ UNCHANGED try
       ELSE /\ try' = [try EXCEPT ![i] = @ + 1]
            /\ wpc' = [wpc EXCEPT ![i] = IF try[i] + 1 < NumUrls THEN "try" ELSE "failed"]
    /\ UNCHANGED <<dldrVars, gatherVars, setupVars, feedbackFunc, mode, available, coordVars,
                   cursor, resp, fileWrites, tried, admissions, aggVars>>

\* Lines 253-258: the snapshot worker i sends.
Snapshot(i) ==
    [Id |-> i, Begin |-> chunks[i].Begin, End |-> chunks[i].End, Current |-> cursor[i]]

\* Lines 253-258 with 292-298: worker i hands its snapshot to the aggregator,
\* which stores it, calls the callback and counts it when Current >= End.
SendProgress(i) ==
    /\ ~Exited
    /\ wpc[i] = "progress"
    /\ aggpc = "recv"
    /\ LET p == Snapshot(i)
           c == IF p.Current >= p.End THEN complete + 1 ELSE complete
       IN  /\ progressArray' = [progressArray EXCEPT ![p.Id] = p]
           /\ complete' = c
           /\ aggpc' = IF c < nConns THEN "recv" ELSE "exit"
    /\ wpc' = [wpc EXCEPT ![i] = "read"]
    /\ UNCHANGED <<dldrVars, gatherVars, setupVars, feedbackFunc, mode, available, coordVars,
                   try, cursor, resp, fileWrites, tried, admissions, writeErr>>

\* Lines 308-309 with 239-240: the coordinator receives done from worker i,
\* which returns.
RecvDone(i) ==
    /\ ~Exited
    /\ dlpc = "select"
    /\ wpc[i] = "done"
    /\ wpc' = [wpc EXCEPT ![i] = "exit"]
    /\ remainingChunks' = remainingChunks - 1
    /\ doneCount' = [doneCount EXCEPT ![i] = @ + 1]
    /\ dlpc' = "token"
    /\ UNCHANGED <<dldrVars, gatherVars, setupVars, feedbackFunc, mode, available, dlErr,
                   spawned, failedCount, files, renames, failedSignals,
                   try, cursor, resp, fileWrites,
                   tried, admissions, writeErr, aggVars>>

\* Lines 310 and 305, 319-320: put the token back; when no chunk remains
\* rename the staging file (the rename itself may fail) and return.
ReturnToken ==
    /\ ~Exited
    /\ dlpc = "token"
    /\ available < PoolCap
    /\ available' = PutBack(available)
    /\ IF LoopCond(remainingChunks)
       THEN /\ dlpc' = "select"
            /\ UNCHANGED <<dlErr, files, renames>>
       ELSE /\ dlpc' = "returned"
            /\ \/ /\ partFilename \in files
                  /\ files' = (files \ {partFilename}) \cup {filename}
                  /\ renames' = renames + 1
                  /\ UNCHANGED dlErr
               \/ /\ dlErr' = <<"rename">>
                  /\ UNCHANGED <<files, renames>>
    /\ UNCHANGED <<dldrVars, gatherVars, setupVars, feedbackFunc, mode, spawned,
                   remainingChunks, failedCount, doneCount, failedSignals,
                   workerVars, aggVars>>

\* Lines 311-315 with 263: the coordinator receives failed from worker i,
\* which goes back to wait for a token; at the ceiling Download returns.
RecvFailed(i) ==
    /\ ~Exited
    /\ dlpc = "select"
    /\ wpc[i] = "failed"
    /\ wpc' = [wpc EXCEPT ![i] = "acquire"]
    /\ failedCount' = failedCount + 1
    /\ failedSignals' = failedSignals + 1
    /\ IF Ceiling(failedCount + 1)
       THEN /\ dlpc' = "returned"
            /\ dlErr' = <<"exhausted">>
       ELSE UNCHANGED <<dlpc, dlErr>>
    /\ UNCHANGED <<dldrVars, gatherVars, setupVars, feedbackFunc, mode, available, spawned,
                   remainingChunks, files, renames, doneCount,
                   try, cursor, resp, fileWrites,
                   tried, admissions, writeErr, aggVars>>

\* File lengths of the Download specification.
DownloadLengths ==
    {fileWriteChunk * b + d : b \in 0 .. MaxBlocks, d \in 0 .. MaxTail}

\* -------------------------------------------------------------- SetupFile
\* Lines 147-162: SetupFile as one step. A non-empty argument replaces the
\* names; os.Create makes the staging file empty; the error of Truncate is
\* assigned to err and then replaced by the error of Stat.
SetupFile ==
    /\ sfpc = "call"
    /\ sfpc' = "returned"
    /\ LET name == IF sfArg # <<>> THEN sfArg ELSE filename
           part == IF sfArg # <<>> THEN PartName(sfArg) ELSE partFilename
       IN  /\ filename' = name
           /\ partFilename' = part
           /\ IF ~sfEnv.create
              THEN /\ sfErr' = <<"create">>
                   /\ sfInfo' = <<>>
                   /\ UNCHANGED <<files, stagingSize>>
              ELSE LET size == IF sfEnv.truncate THEN fileLength ELSE 0
                   IN  /\ files' = files \cup {part}
                       /\ stagingSize' = size
                       /\ sfErr' = IF sfEnv.stat THEN <<>> ELSE <<"stat">>
                       /\ sfInfo' = IF sfEnv.stat THEN <<size>> ELSE <<>>
    /\ UNCHANGED <<urls, nConns, fileLength, ETag, chunks, gatherVars, sfArg, sfEnv,
                   feedbackFunc, mode, available, dlpc, dlErr, spawned,
                   remainingChunks, failedCount, renames, doneCount,
                   failedSignals, workerVars, aggVars>>

\* The downloader after NewMultiDownloader and a successful GatherInfo.
Gathered ==
    /\ \E m \in 1 .. MaxMirrors : urls = [k \in 0 .. m - 1 |-> UrlOf(k)]
    /\ nConns \in 1 .. MaxWorkers
    /\ nConns * Cardinality(DOMAIN urls) <= MaxPairs
    /\ fileLength \in DownloadLengths
    /\ filename = urlToFilename(UrlOf(0))
    /\ partFilename = PartName(filename)
    /\ ETag = <<>>
    /\ chunks = buildChunks(fileLength, nConns)
    /\ gipc = "returned"
    /\ giErr = ""
    /\ heads = [k \in DOMAIN urls |->
                  [conn |-> TRUE, statusCode |-> 200,
                   contentLength |-> <<fileLength>>, etag |-> <<>>]]
    /\ ppc = [k \in DOMAIN urls |-> "done"]
    /\ resArray = [j \in 1 .. NumUrls |-> getHeadInfo(j - 1, heads[j - 1])]
    /\ resultsClosed = TRUE

\* At the call of SetupFile, with or without a filename, whatever the file
\* system will answer.
InitSetup ==
    /\ Gathered
    /\ DownloadIdle
    /\ sfpc = "call"
    /\ sfArg \in {<<>>, <<"out">>}
    /\ sfEnv \in [create : BOOLEAN, truncate : BOOLEAN, stat : BOOLEAN]
    /\ sfErr = <<>>
    /\ sfInfo = <<>>
    /\ stagingSize = 0

NextSetup == SetupFile

SpecSetup == InitSetup /\ [][NextSetup]_vars

\* The downloader after NewMultiDownloader, a successful GatherInfo and
\* SetupFile(""), at the call of Download.
Init ==
    /\ Gathered
    /\ feedbackFunc \in BOOLEAN
    /\ mode \in {"down", "mix", "any"}
    /\ dlpc = "open"
    /\ dlErr = <<>>
    /\ spawned = 0
    /\ available = 0
    /\ remainingChunks = 0
    /\ failedCount = 0
    /\ wpc = [i \in Workers |-> "idle"]
    /\ try = [i \in Workers |-> 0]
    /\ cursor = [i \in Workers |-> 0]
    /\ resp = [i \in Workers |-> NoResp]
    /\ progressArray = [k \in {} |-> 0]
    /\ complete = 0
    /\ aggpc = "none"
    /\ fileWrites = {}
    /\ files = {partFilename}
    /\ renames = 0
    /\ doneCount = [i \in Workers |-> 0]
    /\ failedSignals = 0
    /\ tried = [i \in Workers |-> <<>>]
    /\ admissions = [i \in Workers |-> 0]
    /\ writeErr = {}
    /\ SetupDone

Next ==
    \/ OpenFile
    \/ Spawn
    \/ StartCoordinator
    \/ \E i \in Workers : Acquire(i)
    \/ \E i \in Workers : ConnectFails(i)
    \/ \E i \in Workers : Connect(i)
    \/ \E i \in Workers : ReadBlock(i)
    \/ \E i \in Workers : WriteFails(i)
    \/ \E i \in Workers : SendProgress(i)
    \/ \E i \in Workers : RecvDone(i)
    \/ ReturnToken
    \/ \E i \in Workers : RecvFailed(i)

Spec == Init /\ [][Next]_vars

\* The Go scheduler runs every goroutine that can take a step.
FairSpec == Spec /\ WF_vars(Next)

\* ------------------------------------------------- GatherInfo properties
GatherInfoOver == gipc \in {"returned", "panicked"}

AllProbes200 == \A k \in DOMAIN heads : heads[k].conn /\ heads[k].statusCode = 200

SomeProbeBad == \E k \in DOMAIN heads : ~heads[k].conn \/ heads[k].statusCode # 200

\* The length GatherInfo reads from mirror k's Content-Length header.
ReportedLength(k) == getHeadInfo(k, heads[k]).fileLength

\* All mirrors report the same length and any two non-empty ETags are equal.
MirrorsAgree ==
    \A a \in DOMAIN heads : \A b \in DOMAIN heads :
        /\ ReportedLength(a) = ReportedLength(b)
        /\ (heads[a].etag # <<>> /\ heads[b].etag # <<>>) => heads[a].etag = heads[b].etag

\* Every ETag that is present is a quoted string.
TagsQuoted == \A k \in DOMAIN heads : Len(heads[k].etag) # 1

\* C6: when every probe answers 200, GatherInfo succeeds if and only if all
\* mirrors report the same length and every two non-empty ETags are equal,
\* whatever the order in which the answers arrive (stated for mirrors whose
\* ETags are absent or quoted).
GatherSucceedsIffAgree ==
    (GatherInfoOver /\ DOMAIN heads # {} /\ AllProbes200 /\ TagsQuoted) =>
        ((gipc = "returned" /\ giErr = "") <=> MirrorsAgree)

\* C7: if some probe fails to connect or answers a status other than 200,
\* GatherInfo returns an error however many mirrors answered well, and file
\* length, filename, staging filename, ETag and chunk table stay untouched.
BadProbeAborts ==
    SomeProbeBad =>
        /\ fileLength = 0 /\ filename = <<>> /\ partFilename = <<>>
        /\ ETag = <<>> /\ chunks = NoChunks
        /\ GatherInfoOver => (gipc = "returned" /\ giErr = "Failed connection to URL")

BadProbeAbortsWitness ==
    /\ gipc = "returned"
    /\ giErr = "Failed connection to URL"
    /\ Len(resArray) = 3
    /\ \E k \in DOMAIN heads : heads[k].conn /\ heads[k].statusCode = 404
    /\ Cardinality({k \in DOMAIN heads : heads[k].conn /\ heads[k].statusCode = 200}) = 2

\* C8: after a successful GatherInfo the output filename comes from the URL
\* of mirror 0 of the caller's list, and the staging filename is that name
\* followed by the suffix.
FilenameFromFirstMirror ==
    (gipc = "returned" /\ giErr = "" /\ DOMAIN urls # {}) =>
        /\ filename = urlToFilename(urls[0])
        /\ partFilename = PartName(urlToFilename(urls[0]))

\* --------------------------------------------------- Download properties
Success(code) == code \in {200, 206}

\* The offsets [lo, hi) of two writes have a byte in common.
Overlap(a, b) == a.lo < b.hi /\ b.lo < a.hi

\* C2: with the body an HTTP server sends for the Range header, every offset
\* worker i writes lies in chunk i's range of the chunk table, and no offset
\* is written by two different workers.
WritesDisjoint ==
    mode = "mix" =>
        /\ \A r \in fileWrites :
              r.statusCode = 206 =>
                  chunks[r.w].Begin <= r.lo /\ r.hi <= chunks[r.w].End
        /\ \A a \in fileWrites : \A b \in fileWrites :
              (a.statusCode = 206 /\ b.statusCode = 206 /\ a.w # b.w) => ~Overlap(a, b)

\* C3: the staging file is renamed at most once, only after every chunk has
\* signalled done exactly once and remaining is 0; when Download returns the
\* exhausted-mirrors error nothing was renamed and the staging file is there.
RenameOnce ==
    /\ renames <= 1
    /\ renames = 1 =>
          /\ remainingChunks = 0
          /\ \A i \in Workers : doneCount[i] = 1
          /\ dlpc = "returned" /\ dlErr = <<>>
    /\ (dlpc = "returned" /\ dlErr = <<"exhausted">>) =>
          /\ renames = 0
          /\ partFilename \in files
          /\ filename \notin files

RenameOnceWitness ==
    /\ renames = 1
    /\ nConns = 2
    /\ failedSignals = 1
    /\ filename \in files

\* C4: when every attempt against every mirror fails to connect, Download
\* eventually returns the exhausted-mirrors error, having received exactly
\* nConns failed signals, never more.
AllDownAborts ==
    /\ [](mode = "down" =>
            /\ failedSignals <= nConns
            /\ (dlpc = "returned" /\ dlErr = <<"exhausted">>) => failedSignals = nConns)
    /\ (mode = "down" /\ dlpc = "spawn") ~>
            (dlpc = "returned" /\ dlErr = <<"exhausted">> /\ failedSignals = nConns)

AllDownAbortsWitness ==
    /\ mode = "down"
    /\ nConns = 2
    /\ NumUrls = 2
    /\ dlpc = "returned"
    /\ dlErr = <<"exhausted">>
    /\ failedSignals = 2

\* Worker i can take no step now, and nothing but a step of its own or of
\* the coordinator could change that.
Blocked(i) ==
    \/ wpc[i] = "exit"
    \/ wpc[i] = "acquire" /\ available = 0
    \/ wpc[i] = "progress" /\ aggpc # "recv"

\* C5: when every attempt fails to connect or streams its body to the end,
\* with or without a callback, the coordinator never waits on done/failed
\* while every worker is blocked for good.
NeverStalls ==
    (mode \in {"down", "mix"}) =>
        ~(dlpc = "select" /\ \A i \in Workers : Blocked(i))

\* C9: the body of a response with a non-success status is not written to
\* the staging file and does not lead to done; failed is signalled only
\* after all mirrors of the attempt were tried.
BadStatusSkipped ==
    /\ \A r \in fileWrites : Success(r.statusCode)
    /\ \A i \in Workers : wpc[i] = "done" => Success(resp[i].statusCode)
    /\ \A i \in Workers : wpc[i] = "failed" => try[i] = NumUrls

\* C10: with a body as long as the range of the Range header, every snapshot
\* a worker emits and every entry of the aggregator's table has
\* Begin <= Current <= End, Begin and End being the chunk's boundaries.
ProgressInRange ==
    /\ \A i \in Workers :
          (wpc[i] = "progress" /\ mode = "mix" /\ resp[i].statusCode = 206) =>
              LET p == Snapshot(i)
              IN  /\ p.Begin = chunks[i].Begin /\ p.End = chunks[i].End
                  /\ p.Begin <= p.Current /\ p.Current <= p.End
    /\ \A k \in DOMAIN progressArray :
          mode = "mix" /\ fileLength > chunks[k].Begin =>
              /\ progressArray[k].Begin <= progressArray[k].Current
              /\ progressArray[k].Current <= progressArray[k].End

\* Chunk k has reported a snapshot whose Current reached its End (every
\* snapshot a worker sends has Current past Begin).
ReportedEnd(k) ==
    /\ progressArray[k].Current > progressArray[k].Begin
    /\ progressArray[k].Current >= progressArray[k].End

\* C11: with a callback, the aggregator stops receiving from the progress
\* channel only once each of the nConns distinct chunks has reported a
\* snapshot with Current at its End, so that no worker stays blocked on
\* sending progress.
AggregatorStopsLast ==
    aggpc = "exit" =>
        /\ \A k \in Workers : ReportedEnd(k)
        /\ \A i \in Workers : wpc[i] # "progress"

\* C12: SetupFile creates the staging file and gives it the agreed length
\* before any worker has written, and returns an error when creating the
\* file fails and when Truncate fails.
SetupFileSized ==
    sfpc = "returned" =>
        /\ sfErr = <<>> =>
              /\ partFilename \in files
              /\ stagingSize = fileLength
              /\ sfInfo = <<fileLength>>
              /\ fileWrites = {}
        /\ ~sfEnv.create => sfErr # <<>>
        /\ (sfEnv.create /\ ~sfEnv.truncate) => sfErr # <<>>

\* Worker i is in the stream of a response it obtained in this admission.
Streaming(i) == wpc[i] \in {"read", "progress", "done"}

\* C13: within one admission worker i attempts the mirrors (i+0) mod M,
\* (i+1) mod M, ..., (i+M-1) mod M in this order, each at most once; it
\* attempts a further mirror only when the previous attempt failed (never
\* while or after streaming a response), the attempts leave the pool as it
\* is, and failed is signalled only after all M mirrors were attempted.
MirrorOrder ==
    /\ [](\A i \in Workers :
            /\ Len(tried[i]) <= NumUrls
            /\ \A t \in 1 .. Len(tried[i]) : tried[i][t] = (i + t - 1) % NumUrls
            /\ \A t, u \in 1 .. Len(tried[i]) : t # u => tried[i][t] # tried[i][u]
            /\ wpc[i] = "failed" => Len(tried[i]) = NumUrls /\ resp[i] = NoResp)
    /\ [][\A i \in Workers :
            Len(tried'[i]) > Len(tried[i]) =>
                /\ ~Streaming(i)
                /\ available' = available
                /\ admissions'[i] = admissions[i]]_vars

\* Worker 1 of two mirrors attempted mirror 1, then mirror 0, and is about
\* to signal failed.
MirrorOrderWitness ==
    /\ NumUrls = 2
    /\ nConns = 2
    /\ tried[1] = <<1, 0>>
    /\ wpc[1] = "failed"

\* C14: a worker signals done for chunk i only when the stream of a served
\* range (206) ended after its cursor had advanced over the chunk's full
\* range, so a body that ends early does not produce done; and a worker
\* signals done at most once.
DoneCoversRange ==
    \A i \in Workers :
        /\ (wpc[i] = "done" /\ resp[i].statusCode = 206) =>
               cursor[i] >= chunks[i].End
        /\ doneCount[i] <= 1

RECURSIVE SumTo(_, _)
SumTo(f, n) == IF n = 0 THEN 0 ELSE f[n - 1] + SumTo(f, n - 1)

\* Attempts started beyond each worker's first admission.
Retries ==
    SumTo([i \in Workers |-> IF admissions[i] > 1 THEN admissions[i] - 1 ELSE 0], nConns)

\* Done signals the coordinator has processed.
DonesProcessed == SumTo(doneCount, nConns)

\* C15: a worker that has signalled failed starts its next attempt only with
\* a token put back after a done: the retries started never exceed the done
\* signals the coordinator has processed.
RetryNeedsDone == Retries <= DonesProcessed

\* Worker i took a token at line 214 and has neither handed over done nor
\* failed since.
Holding(i) == wpc[i] \in {"try", "read", "progress", "done", "failed", "fatal"}

Holders == {i \in Workers : Holding(i)}

\* The token the coordinator is about to put back at line 310.
InHand == IF dlpc = "token" THEN 1 ELSE 0

\* C16: the tokens in the pool plus the workers holding a token (plus the
\* token the coordinator is returning) never exceed N; so the pool never
\* holds more than N tokens, and the send of the initial filling (line 276)
\* and the send that returns a token (line 310) always find a free slot.
TokensAtMostN ==
    /\ available + Cardinality(Holders) + InHand <= nConns
    /\ available <= nConns
    /\ (dlpc = "spawn" /\ spawned < nConns) => available < PoolCap
    /\ dlpc = "token" => available < PoolCap

\* Two workers: one chunk is done and its token is back in the pool while
\* the other worker still holds its token.
TokensAtMostNWitness ==
    /\ nConns = 2
    /\ dlpc = "select"
    /\ DonesProcessed = 1
    /\ available = 1
    /\ Cardinality(Holders) = 1

\* Download returned the error of line 314.
Aborted == dlpc = "returned" /\ dlErr = <<"exhausted">>

\* C17: the failure counter is global: Download aborts exactly when the
\* failed signals received, over all chunks and retries, reach N, whichever
\* workers sent them and however many chunks are done.
GlobalCeiling ==
    /\ failedSignals <= nConns
    /\ Aborted <=> failedSignals = nConns
    /\ dlpc \in {"select", "token"} => failedCount = failedSignals

\* N = 2: chunk 1 is done, and the two mirror exhaustions of chunk 0 alone
\* aborted the session.
GlobalCeilingWitness ==
    /\ nConns = 2
    /\ Aborted
    /\ doneCount[1] = 1
    /\ admissions[1] = 1
    /\ admissions[0] = 2
    /\ failedSignals = 2

\* C18: GatherInfo has received the result of every probe before it returns
\* and closes the results channel, on the failure paths too: once the
\* channel is closed no probe is still to send, is sending, or has sent on
\* the closed channel.
AllProbesCollected ==
    resultsClosed => \A k \in DOMAIN ppc : ppc[k] = "done"

\* C19: a failed write to the staging file ends the session at once: from
\* the write error on, the worker attempts no further mirror, no done and no
\* failed is received, and the staging file is never renamed.
WriteErrorEnds ==
    /\ [](writeErr # {} =>
            /\ renames = 0
            /\ \A i \in writeErr : wpc[i] = "fatal")
    /\ [][writeErr' # {} =>
            /\ tried' = tried
            /\ try' = try
            /\ doneCount' = doneCount
            /\ failedSignals' = failedSignals
            /\ renames' = renames
            /\ files' = files]_vars

\* A write of worker 0 failed while a second mirror was still untried and
\* worker 1 was waiting to hand over done.
WriteErrorEndsWitness ==
    /\ nConns = 2
    /\ NumUrls = 2
    /\ writeErr = {0}
    /\ wpc[0] = "fatal"
    /\ Len(tried[0]) = 1
    /\ wpc[1] = "done"

\* The coordinator loop of lines 303-317 has been entered (failedCount
\* exists) and the coordinator is not between lines 309 and 310.
CoordinatorAtRest ==
    \/ dlpc = "select"
    \/ dlpc = "returned" /\ dlErr # <<"open">>

\* Some worker waits for a token at line 214.
SomeWaiting == \E i \in Workers : wpc[i] = "acquire"

\* C20: token conservation: from the entry of the coordinator loop on, where
\* the coordinator is not between receiving a done and returning its token, the tokens in the pool plus the workers
\* holding one equal N - failedCount; so when failedCount < N, some chunk is
\* not done and no worker holds a token, the pool has a token and a waiting
\* worker can take it.
TokenConservation ==
    /\ CoordinatorAtRest =>
           available + Cardinality(Holders) = nConns - failedCount
    /\ (dlpc = "select" /\ failedCount < nConns /\ remainingChunks > 0
          /\ Holders = {}) =>
           /\ available >= 1
           /\ SomeWaiting

\* N = 2: chunk 1 is done and its token is back, worker 0 failed once and
\* waits at line 214 with one token in the pool.
TokenConservationWitness ==
    /\ nConns = 2
    /\ dlpc = "select"
    /\ failedCount = 1
    /\ remainingChunks = 1
    /\ doneCount[1] = 1
    /\ Holders = {}
    /\ wpc[0] = "acquire"
    /\ available = 1

====
